---- MODULE Spec2Model ----
(***************************************************************************)
(* The delayed-task queue of graysonarts/task_scheduler: the task store    *)
(* (common/src/db.rs, SQL statements run by PostgreSQL under its default   *)
(* READ COMMITTED isolation), the task type (common/src/lib.rs), the       *)
(* worker's polling loop with its semaphore (worker/src/main.rs) and the   *)
(* HTTP handlers that create and delete tasks (scheduler/src/main.rs).     *)
(***************************************************************************)
EXTENDS Integers, Sequences, FiniteSets, TLC

(* ---------------------------------------------------------------- bounds *)

\* Number of task ids (Uuid::new_v4 values) that are ever generated.
MaxTasks == 2

\* The wall clock (Utc::now) runs over 0..MaxTime, in seconds.
MaxTime == 3

\* The execute_at a caller asks for is one of 0..MaxExecuteAt: early enough
\* for the task of any kind to fall due before the clock stops.
MaxExecuteAt == MaxTime - 3

\* Capacity of the worker's semaphore. worker/src/main.rs:9 sets it to 10; the
\* model runs the same loop at a small capacity so that saturation is reached.
MAX_CONCURRENT_TASKS == 1

(* ----------------------------------------------------------------- types *)

\* The worker processes that poll the store.
Workers == {"w1", "w2"}

\* A client of the common crate that calls the operations of Db itself.
Client == "client"

\* Whoever can have a claim statement running.
Callers == Workers \cup {Client}

Ids == 1..MaxTasks

TaskKind == {"Foo", "Bar", "Baz"}

TaskStatus == {"Pending", "InProgress", "Completed"}

\* Option<T>: None is the empty sequence, Some(x) is <<x>>.
None == << >>

Some(x) == <<x>>

\* Mutant of process_delay: no kind is delayed.
process_delay_none(kind) == 0

\* TaskKind::process_delay, in seconds.
process_delay(kind) == IF kind = "Foo" THEN 3 ELSE 0

\* Task::with_current_time; id is the value Uuid::new_v4() returned.
with_current_time(id, kind, now) ==
    [id |-> id, kind |-> kind, process_at |-> now + process_delay(kind),
     status |-> "Pending"]

(* ------------------------------------------------------------- the store *)
\* The tasks table is a function from the ids of its rows to the rows.

\* Db::add_task: INSERT of the row as given, its status included.
add_task(s, task) ==
    [i \in DOMAIN s \cup {task.id} |-> IF i = task.id THEN task ELSE s[i]]

\* Mutant of delete_task: the DELETE restricted to Pending rows.
delete_task_pending(s, id) ==
    [i \in DOMAIN s \ {j \in {id} \cap DOMAIN s : s[j].status = "Pending"} |-> s[i]]

\* Db::delete_task: DELETE ... WHERE id = $1.
delete_task(s, id) == [i \in DOMAIN s \ {id} |-> s[i]]

\* Mutant of complete_rows: the UPDATE without its status condition.
complete_rows_any(s, id) == {i \in DOMAIN s : i = id}

\* Rows the UPDATE of Db::complete_task matches: id = $2 AND status = InProgress.
complete_rows(s, id) == {i \in DOMAIN s : i = id /\ s[i].status = "InProgress"}

\* Db::complete_task: the table after the UPDATE, and the Result it returns
\* (rows_affected() = 0 gives Err(DbError::TaskNotPending)).
complete_task(s, id) ==
    [store |-> [i \in DOMAIN s |->
                  IF i \in complete_rows(s, id)
                  THEN [s[i] EXCEPT !.status = "Completed"] ELSE s[i]],
     result |-> IF complete_rows(s, id) = {} THEN "TaskNotPending" ELSE "Ok"]

\* The WHERE of the cte of Db::get_next_task_executable_at.
Eligible(s, now) ==
    {i \in DOMAIN s : s[i].status = "Pending" /\ s[i].process_at <= now}

\* The cte: ORDER BY process_at LIMIT 1 over the statement's snapshot. Rows
\* with the same process_at come in the store's order: any of them.
CteRows(s, now) ==
    {i \in Eligible(s, now) :
        \A j \in Eligible(s, now) : s[i].process_at <= s[j].process_at}

\* Mutant of UpdateFromCte: the UPDATE without its join on the id, so that
\* it sets every Pending row.
UpdateFromCteUnjoined(s, cteRow) ==
    IF cteRow = None \/ cteRow[1] \notin DOMAIN s
    THEN s
    ELSE [i \in DOMAIN s |->
            IF i = cteRow[1] \/ s[i].status = "Pending"
            THEN [s[i] EXCEPT !.status = "InProgress"] ELSE s[i]]

\* UPDATE tasks SET status = InProgress FROM cte WHERE tasks.id = cte.id, run
\* on the latest committed version of the row: under READ COMMITTED the row
\* found changed by a concurrent statement is re-checked against the UPDATE's
\* own WHERE (the id), not against the cte's.
UpdateFromCte(s, cteRow) ==
    IF cteRow = None \/ cteRow[1] \notin DOMAIN s
    THEN s
    ELSE [s EXCEPT ![cteRow[1]].status = "InProgress"]

\* RETURNING tasks.id, status, kind, process_at; fetch_optional.
Returning(s, cteRow) ==
    IF cteRow = None \/ cteRow[1] \notin DOMAIN s
    THEN None
    ELSE Some([s[cteRow[1]] EXCEPT !.status = "InProgress"])

\* Db::get_task: SELECT ... WHERE id = $1; fetch_optional.
get_task(s, id) == IF id \in DOMAIN s THEN Some(s[id]) ELSE None

\* Mutant of OrderByProcessAt: the rows in any order.
AnyOrder(s, D) ==
    {[k \in 1..Cardinality(D) |-> s[q[k]]] :
       q \in {f \in [1..Cardinality(D) -> D] :
                \A a, b \in 1..Cardinality(D) : a # b => f[a] # f[b]}}

\* SELECT ... ORDER BY process_at over the rows D of the table; fetch_all.
\* Rows with the same process_at come in any order.
OrderByProcessAt(s, D) ==
    {[k \in 1..Cardinality(D) |-> s[q[k]]] :
       q \in {f \in [1..Cardinality(D) -> D] :
                /\ \A a, b \in 1..Cardinality(D) : a # b => f[a] # f[b]
                /\ \A a, b \in 1..Cardinality(D) :
                      a < b => s[f[a]].process_at <= s[f[b]].process_at}}

\* Db::get_tasks: the Vec<Task> values the call can return.
get_tasks(s) == OrderByProcessAt(s, DOMAIN s)

\* Filter::Status(TaskStatus) and Filter::Kind(TaskKind).
Filter ==
    {<<"Status", x>> : x \in TaskStatus} \cup {<<"Kind", k>> : k \in TaskKind}

\* Db::get_filtered_tasks: WHERE status = $1, or WHERE kind = $1.
get_filtered_tasks(s, spec) ==
    IF spec[1] = "Status"
    THEN OrderByProcessAt(s, {i \in DOMAIN s : s[i].status = spec[2]})
    ELSE OrderByProcessAt(s, {i \in DOMAIN s : s[i].kind = spec[2]})

(* ------------------------------------------------------------- the state *)

VARIABLES
    store,      \* the tasks table
    issued,     \* how many ids Uuid::new_v4 has produced: the ids 1..issued
    clock,      \* Utc::now()
    pc,         \* per caller: where its loop (or its claim call) stands
    cte,        \* per caller: the row its running claim statement selected
    callNow,    \* per caller: the now its running claim statement was given
    next_task,  \* per worker: the task its loop holds between claim and spawn
    permits,    \* per worker: free permits of running_tasks
    phase,      \* per worker and id: where the spawned execution stands
    completes,  \* per worker and id: how often it has called complete_task
    result,     \* per worker and id: what complete_task returned to it
    stderr,     \* per worker: ids reported by "Failed to complete task"
    claims,     \* per id: how many claim calls have returned the task
    last        \* outcome of the latest direct call of a Db operation

vars == <<store, issued, clock, pc, cte, callNow, next_task, permits, phase,
          completes, result, stderr, claims, last>>

dbvars == <<store, issued, clock>>

callvars == <<pc, cte, callNow>>

workervars == <<next_task, permits, phase, completes, result, stderr>>

NoCall == [op |-> "none", id |-> 0, res |-> "none"]

\* Mutant of Init: the semaphore built with one permit too many.
InitExtraPermit ==
    /\ store = [i \in {} |-> 0]
    /\ issued = 0
    /\ clock = 0
    /\ pc = [c \in Callers |-> "poll"]
    /\ cte = [c \in Callers |-> None]
    /\ callNow = [c \in Callers |-> 0]
    /\ next_task = [w \in Workers |-> None]
    /\ permits = [w \in Workers |-> MAX_CONCURRENT_TASKS + 1]
    /\ phase = [w \in Workers |-> [i \in Ids |-> "none"]]
    /\ completes = [w \in Workers |-> [i \in Ids |-> 0]]
    /\ result = [w \in Workers |-> [i \in Ids |-> "none"]]
    /\ stderr = [w \in Workers |-> {}]
    /\ claims = [i \in Ids |-> 0]
    /\ last = NoCall

\* The state after construction: an empty table, and each worker process at
\* the top of its loop with Semaphore::new(MAX_CONCURRENT_TASKS).
Init ==
    /\ store = [i \in {} |-> 0]
    /\ issued = 0
    /\ clock = 0
    /\ pc = [c \in Callers |-> "poll"]
    /\ cte = [c \in Callers |-> None]
    /\ callNow = [c \in Callers |-> 0]
    /\ next_task = [w \in Workers |-> None]
    /\ permits = [w \in Workers |-> MAX_CONCURRENT_TASKS]
    /\ phase = [w \in Workers |-> [i \in Ids |-> "none"]]
    /\ completes = [w \in Workers |-> [i \in Ids |-> 0]]
    /\ result = [w \in Workers |-> [i \in Ids |-> "none"]]
    /\ stderr = [w \in Workers |-> {}]
    /\ claims = [i \in Ids |-> 0]
    /\ last = NoCall

(* ------------------------------------------------------------- the clock *)

Tick ==
    /\ clock < MaxTime
    /\ clock' = clock + 1
    /\ UNCHANGED <<store, issued, callvars, workervars, claims, last>>

(* ------------------------------------------------- the scheduler's routes *)

\* PUT /tasks: create_task, TaskRequest -> Task, Db::add_task.
CreateTask(kind, execute_at) ==
    /\ issued < MaxTasks
    /\ issued' = issued + 1
    /\ store' = add_task(store, with_current_time(issued + 1, kind, execute_at))
    /\ UNCHANGED <<clock, callvars, workervars, claims, last>>

\* DELETE /tasks/:id: delete_task, Db::delete_task.
DeleteTask(id) ==
    /\ store' = delete_task(store, id)
    /\ UNCHANGED <<issued, clock, callvars, workervars, claims, last>>

(* -------------------------------------------------------- the worker loop *)

\* main, line 21: Utc::now() is read and the claim statement starts: it takes
\* its snapshot and evaluates the cte. With an empty cte the UPDATE has no row
\* to join: the statement returns None at once, and the loop sleeps (line 24)
\* and goes round; the time the sleep takes is Tick's.
WorkerPoll(w) ==
    /\ pc[w] = "poll"
    /\ \/ /\ CteRows(store, clock) = {}
          /\ UNCHANGED <<pc, cte, callNow>>
       \/ \E i \in CteRows(store, clock) :
             /\ cte' = [cte EXCEPT ![w] = Some(i)]
             /\ callNow' = [callNow EXCEPT ![w] = clock]
             /\ pc' = [pc EXCEPT ![w] = "update"]
    /\ UNCHANGED <<dbvars, workervars, claims, last>>

\* main, lines 21-22: the UPDATE of the claim statement runs and the call
\* returns; the loop matches on the Option: on None it sleeps and goes round.
WorkerClaim(w) ==
    /\ pc[w] = "update"
    /\ store' = UpdateFromCte(store, cte[w])
    /\ next_task' = [next_task EXCEPT ![w] = Returning(store, cte[w])]
    /\ claims' = IF Returning(store, cte[w]) = None THEN claims
                 ELSE [claims EXCEPT ![cte[w][1]] = @ + 1]
    /\ pc' = [pc EXCEPT ![w] =
                IF Returning(store, cte[w]) = None THEN "poll" ELSE "acquire"]
    /\ cte' = [cte EXCEPT ![w] = None]
    /\ callNow' = [callNow EXCEPT ![w] = 0]
    /\ UNCHANGED <<issued, clock, permits, phase, completes, result, stderr,
                   last>>

\* Mutant of WorkerSpawn: the permit is released again as soon as the
\* execution is spawned.
WorkerSpawnKeepsPermit(w) ==
    /\ pc[w] = "acquire"
    /\ permits[w] > 0
    /\ phase' = [phase EXCEPT ![w][next_task[w][1].id] = "running"]
    /\ next_task' = [next_task EXCEPT ![w] = None]
    /\ pc' = [pc EXCEPT ![w] = "poll"]
    /\ UNCHANGED <<dbvars, cte, callNow, permits, completes, result, stderr,
                   claims, last>>

\* Mutant of WorkerSpawn: the execution is spawned without waiting for a
\* permit.
WorkerSpawnUngated(w) ==
    /\ pc[w] = "acquire"
    /\ permits' = [permits EXCEPT ![w] = IF @ > 0 THEN @ - 1 ELSE 0]
    /\ phase' = [phase EXCEPT ![w][next_task[w][1].id] = "running"]
    /\ next_task' = [next_task EXCEPT ![w] = None]
    /\ pc' = [pc EXCEPT ![w] = "poll"]
    /\ UNCHANGED <<dbvars, cte, callNow, completes, result, stderr, claims,
                   last>>

\* main, lines 27-29 and run_task, line 36: acquire_owned() returns a permit
\* once one is free, and tokio::spawn starts the execution, which owns the
\* permit and the task; the loop goes round.
WorkerSpawn(w) ==
    /\ pc[w] = "acquire"
    /\ permits[w] > 0
    /\ permits' = [permits EXCEPT ![w] = @ - 1]
    /\ phase' = [phase EXCEPT ![w][next_task[w][1].id] = "running"]
    /\ next_task' = [next_task EXCEPT ![w] = None]
    /\ pc' = [pc EXCEPT ![w] = "poll"]
    /\ UNCHANGED <<dbvars, cte, callNow, completes, result, stderr, claims,
                   last>>

(* -------------------------------------------------- a spawned execution *)

\* Mutant of TaskComplete: the execution ends its run and goes on without
\* calling complete_task.
TaskCompleteSkipped(w, i) ==
    /\ phase[w][i] = "running"
    /\ result' = [result EXCEPT ![w][i] = "Ok"]
    /\ phase' = [phase EXCEPT ![w][i] = "completed"]
    /\ UNCHANGED <<dbvars, callvars, next_task, permits, completes, stderr,
                   claims, last>>

\* run_task, lines 37-38: task.run().await returns (it touches neither the
\* store nor the semaphore) and the store runs the UPDATE of
\* db.complete_task(task.id).
TaskComplete(w, i) ==
    /\ phase[w][i] = "running"
    /\ store' = complete_task(store, i).store
    /\ completes' = [completes EXCEPT ![w][i] = @ + 1]
    /\ result' = [result EXCEPT ![w][i] = complete_task(store, i).result]
    /\ phase' = [phase EXCEPT ![w][i] = "completed"]
    /\ UNCHANGED <<issued, clock, callvars, next_task, permits, stderr,
                   claims, last>>

\* Mutant of TaskFinish: the permit is dropped only after an Ok.
TaskFinishOkOnly(w, i) ==
    /\ phase[w][i] = "completed"
    /\ result[w][i] = "Ok"
    /\ permits' = [permits EXCEPT ![w] = @ + 1]
    /\ phase' = [phase EXCEPT ![w][i] = "done"]
    /\ UNCHANGED <<dbvars, callvars, next_task, completes, result, stderr,
                   claims, last>>

\* Mutant of TaskFinish: an Err of complete_task ends the worker's loop.
TaskFinishHalts(w, i) ==
    /\ phase[w][i] = "completed"
    /\ stderr' = [stderr EXCEPT ![w] =
                    IF result[w][i] = "Ok" THEN @ ELSE @ \cup {i}]
    /\ pc' = IF result[w][i] = "Ok" THEN pc ELSE [pc EXCEPT ![w] = "exited"]
    /\ permits' = [permits EXCEPT ![w] = @ + 1]
    /\ phase' = [phase EXCEPT ![w][i] = "done"]
    /\ UNCHANGED <<dbvars, cte, callNow, next_task, completes, result, claims,
                   last>>

\* run_task, lines 39-45: the Result arrives, an Err is printed, the permit is
\* dropped.
TaskFinish(w, i) ==
    /\ phase[w][i] = "completed"
    /\ stderr' = [stderr EXCEPT ![w] =
                    IF result[w][i] = "Ok" THEN @ ELSE @ \cup {i}]
    /\ permits' = [permits EXCEPT ![w] = @ + 1]
    /\ phase' = [phase EXCEPT ![w][i] = "done"]
    /\ UNCHANGED <<dbvars, callvars, next_task, completes, result, claims,
                   last>>

(* ------------------------------------------------ the store unreachable *)

\* Mutant of WorkerClaimFails: the loop swallows the Err and goes round.
WorkerClaimFailsRetries(w) ==
    /\ pc[w] \in {"poll", "update"}
    /\ store' \in {store} \cup
                  (IF pc[w] = "update" THEN {UpdateFromCte(store, cte[w])} ELSE {})
    /\ pc' = [pc EXCEPT ![w] = "poll"]
    /\ cte' = [cte EXCEPT ![w] = None]
    /\ callNow' = [callNow EXCEPT ![w] = 0]
    /\ UNCHANGED <<issued, clock, workervars, claims, last>>

\* main, line 21: get_next_task_executable_at(..).await returns Err (the pool
\* gives no connection: the statement never ran; or the connection breaks
\* while the statement runs: the server has applied it or it has not) and the
\* `?` returns the Err from main. The runtime of #[tokio::main] is dropped
\* with main's return, and with it every spawned execution, permit included.
WorkerClaimFails(w) ==
    /\ pc[w] \in {"poll", "update"}
    /\ store' \in {store} \cup
                  (IF pc[w] = "update" THEN {UpdateFromCte(store, cte[w])} ELSE {})
    /\ pc' = [pc EXCEPT ![w] = "exited"]
    /\ cte' = [cte EXCEPT ![w] = None]
    /\ callNow' = [callNow EXCEPT ![w] = 0]
    /\ phase' = [phase EXCEPT ![w] =
                   [i \in Ids |-> IF phase[w][i] \in {"running", "completed"}
                                  THEN "dropped" ELSE phase[w][i]]]
    /\ permits' = [permits EXCEPT ![w] =
                     @ + Cardinality({i \in Ids :
                                        phase[w][i] \in {"running", "completed"}})]
    /\ UNCHANGED <<issued, clock, next_task, completes, result, stderr, claims,
                   last>>

(* ------------------------------------------------------ the whole system *)

Next ==
    \/ Tick
    \/ \E k \in TaskKind, t \in 0..MaxExecuteAt : CreateTask(k, t)
    \/ \E i \in Ids : DeleteTask(i)
    \/ \E w \in Workers : WorkerPoll(w)
    \/ \E w \in Workers : WorkerClaim(w)
    \/ \E w \in Workers : WorkerSpawn(w)
    \/ \E w \in Workers, i \in Ids : TaskComplete(w, i)
    \/ \E w \in Workers, i \in Ids : TaskFinish(w, i)

Spec == Init /\ [][Next]_vars

(* ------------------------------------------------- one worker process *)
\* The system run with a single worker process beside the scheduler.

SoloWorker == "w1"

NextWorker ==
    \/ Tick
    \/ \E k \in TaskKind, t \in 0..MaxExecuteAt : CreateTask(k, t)
    \/ \E i \in Ids : DeleteTask(i)
    \/ WorkerPoll(SoloWorker)
    \/ WorkerClaim(SoloWorker)
    \/ WorkerSpawn(SoloWorker)
    \/ \E i \in Ids : TaskComplete(SoloWorker, i)
    \/ \E i \in Ids : TaskFinish(SoloWorker, i)

SpecWorker == Init /\ [][NextWorker]_vars

(* ------------------------------- one worker process, the store failing *)
\* The single worker process beside the scheduler, with a store whose claim
\* statement can fail.

NextOutage ==
    \/ NextWorker
    \/ WorkerClaimFails(SoloWorker)

SpecOutage == Init /\ [][NextOutage]_vars

(* ---------------------------------- the whole system, the store failing *)
\* The worker processes and the scheduler, with a store whose claim statement
\* can fail: a worker process that meets the failure ends and leaves the
\* tasks it was executing as they are in the store.

NextCrash ==
    \/ Next
    \/ \E w \in Workers : WorkerClaimFails(w)

SpecCrash == Init /\ [][NextCrash]_vars

(* ------------------------------------ a worker process that keeps running *)
\* The worker processes and the scheduler with no task deleted. One worker
\* process keeps running: the runtime polls its loop and its spawned
\* executions whenever they can go on, the store answers every statement and
\* every Task::run returns. The other worker process may stop at any point,
\* and has stopped for good once its loop holds a task it claimed.

LiveWorker == "w1"

\* The kinds of the tasks created here: the delayed kind and one of the two
\* kinds without delay, which differ only in what Task::run does.
LiveKinds == {"Foo", "Bar"}

NextLive ==
    \/ Tick
    \/ \E k \in LiveKinds, t \in 0..MaxExecuteAt : CreateTask(k, t)
    \/ \E w \in Workers : WorkerPoll(w)
    \/ \E w \in Workers : WorkerClaim(w)
    \/ WorkerSpawn(LiveWorker)
    \/ \E i \in Ids : TaskComplete(LiveWorker, i)
    \/ \E i \in Ids : TaskFinish(LiveWorker, i)

Fairness ==
    /\ WF_vars(WorkerPoll(LiveWorker))
    /\ WF_vars(WorkerClaim(LiveWorker))
    /\ WF_vars(WorkerSpawn(LiveWorker))
    /\ \A i \in Ids : WF_vars(TaskComplete(LiveWorker, i))
    /\ \A i \in Ids : WF_vars(TaskFinish(LiveWorker, i))

SpecLive == Init /\ [][NextLive]_vars /\ Fairness

(* ------------------------------------------- the store's operations alone *)
\* A client of the common crate calls the operations of Db directly, as the
\* tests of db.rs do; last records what the latest call returned.

\* Task::with_current_time and Db::add_task.
DbAddTask(kind, now) ==
    /\ issued < MaxTasks
    /\ issued' = issued + 1
    /\ store' = add_task(store, with_current_time(issued + 1, kind, now))
    /\ last' = [op |-> "add_task", id |-> issued + 1, res |-> "Ok"]
    /\ UNCHANGED <<clock, callvars, workervars, claims>>

\* Db::complete_task.
DbCompleteTask(id) ==
    /\ store' = complete_task(store, id).store
    /\ last' = [op |-> "complete_task", id |-> id,
                res |-> complete_task(store, id).result]
    /\ UNCHANGED <<issued, clock, callvars, workervars, claims>>

\* Db::delete_task.
DbDeleteTask(id) ==
    /\ store' = delete_task(store, id)
    /\ last' = [op |-> "delete_task", id |-> id, res |-> "Ok"]
    /\ UNCHANGED <<issued, clock, callvars, workervars, claims>>

\* Db::get_next_task_executable_at(Utc::now()): the statement starts, takes
\* its snapshot and evaluates the cte; with an empty cte it returns None.
DbClaimStart(c) ==
    /\ pc[c] = "poll"
    /\ \/ /\ CteRows(store, clock) = {}
          /\ last' = [op |-> "get_next_task", id |-> 0, res |-> "None"]
          /\ UNCHANGED <<pc, cte, callNow>>
       \/ \E i \in CteRows(store, clock) :
             /\ cte' = [cte EXCEPT ![c] = Some(i)]
             /\ callNow' = [callNow EXCEPT ![c] = clock]
             /\ pc' = [pc EXCEPT ![c] = "update"]
             /\ UNCHANGED last
    /\ UNCHANGED <<dbvars, workervars, claims>>

\* Db::get_next_task_executable_at: the UPDATE runs and the call returns.
DbClaimReturn(c) ==
    /\ pc[c] = "update"
    /\ store' = UpdateFromCte(store, cte[c])
    /\ last' = IF Returning(store, cte[c]) = None
               THEN [op |-> "get_next_task", id |-> 0, res |-> "None"]
               ELSE [op |-> "get_next_task", id |-> cte[c][1], res |-> "Some"]
    /\ claims' = IF Returning(store, cte[c]) = None THEN claims
                 ELSE [claims EXCEPT ![cte[c][1]] = @ + 1]
    /\ pc' = [pc EXCEPT ![c] = "poll"]
    /\ cte' = [cte EXCEPT ![c] = None]
    /\ callNow' = [callNow EXCEPT ![c] = 0]
    /\ UNCHANGED <<issued, clock, workervars>>

\* Db::add_task given a Task value whose status field the caller has set
\* (the fields of Task are pub); the other fields as with_current_time sets
\* them.
DbAddTaskAs(kind, now, status) ==
    /\ issued < MaxTasks
    /\ issued' = issued + 1
    /\ store' = add_task(store, [with_current_time(issued + 1, kind, now)
                                   EXCEPT !.status = status])
    /\ last' = [op |-> "add_task", id |-> issued + 1, res |-> "Ok"]
    /\ UNCHANGED <<clock, callvars, workervars, claims>>

\* Db::get_task.
DbGetTask(id) ==
    /\ last' = [op |-> "get_task", id |-> id, res |-> "Ok",
                rows |-> get_task(store, id)]
    /\ UNCHANGED <<dbvars, callvars, workervars, claims>>

\* Db::get_tasks.
DbGetTasks ==
    /\ \E r \in get_tasks(store) :
          last' = [op |-> "get_tasks", id |-> 0, res |-> "Ok", rows |-> r]
    /\ UNCHANGED <<dbvars, callvars, workervars, claims>>

\* Db::get_filtered_tasks.
DbGetFilteredTasks(spec) ==
    /\ \E r \in get_filtered_tasks(store, spec) :
          last' = [op |-> "get_filtered_tasks", id |-> 0, res |-> "Ok",
                   rows |-> r, filter |-> spec]
    /\ UNCHANGED <<dbvars, callvars, workervars, claims>>

NextDb ==
    \/ Tick
    \/ \E k \in TaskKind, t \in 0..MaxExecuteAt : DbAddTask(k, t)
    \/ \E i \in Ids : DbCompleteTask(i)
    \/ \E i \in Ids : DbDeleteTask(i)
    \/ DbClaimStart(Client)
    \/ DbClaimReturn(Client)

SpecDb == Init /\ [][NextDb]_vars

(* ------------------------------------- the store's operations in turn *)
\* A single client that calls the operations of Db one after the other, each
\* call awaited before the next is made, as the tests of db.rs do.

ClientIdle == pc[Client] = "poll"

NextSeq ==
    \/ Tick
    \/ ClientIdle /\ \E k \in TaskKind, t \in 0..MaxExecuteAt : DbAddTask(k, t)
    \/ ClientIdle /\ \E i \in Ids : DbCompleteTask(i)
    \/ ClientIdle /\ \E i \in Ids : DbDeleteTask(i)
    \/ ClientIdle /\ \E i \in Ids : DbGetTask(i)
    \/ DbClaimStart(Client)
    \/ DbClaimReturn(Client)

SpecSeq == Init /\ [][NextSeq]_vars

\* The same client, which also passes to add_task Task values whose status it
\* has set itself.
NextInsert ==
    \/ NextSeq
    \/ ClientIdle /\ \E k \in TaskKind, t \in 0..MaxExecuteAt, st \in TaskStatus :
                        DbAddTaskAs(k, t, st)

SpecInsert == Init /\ [][NextInsert]_vars

\* A client that fills the table with add_task, giving each task the status
\* it chooses, deletes tasks and lists them.
NextList ==
    \/ \E k \in TaskKind, t \in 0..MaxExecuteAt, st \in TaskStatus :
          DbAddTaskAs(k, t, st)
    \/ \E i \in Ids : DbDeleteTask(i)
    \/ DbGetTasks
    \/ \E f \in Filter : DbGetFilteredTasks(f)

SpecList == Init /\ [][NextList]_vars

(* ------------------------------------------------------------ the claims *)

\* Executions of worker w that were spawned and still own their permit.
Executing(w) == {i \in Ids : phase[w][i] \in {"running", "completed"}}

\* C1. Claim exclusivity: no task is returned to more than one claim call,
\* whatever the interleaving of the calls.
C1_ClaimExclusivity == \A i \in Ids : claims[i] <= 1

\* C2. Scenario D: two claim calls run concurrently and both selected the one
\* eligible task; once one of them has returned it, the other returns none.
C2_OneWinner ==
    [][\A w \in Workers :
         (/\ WorkerClaim(w)
          /\ claims[cte[w][1]] >= 1
          /\ Eligible(store, callNow[w]) = {})
         => next_task'[w] = None]_vars

\* C3. Status monotonicity: the status of a stored task changes only from
\* Pending to InProgress and from InProgress to Completed.
C3_StatusMonotone ==
    [][\A i \in (DOMAIN store) \cap (DOMAIN store') :
         \/ store'[i].status = store[i].status
         \/ store[i].status = "Pending" /\ store'[i].status = "InProgress"
         \/ store[i].status = "InProgress" /\ store'[i].status = "Completed"]_vars

\* C4. At-most-once execution: over all workers, Task::run is started at most
\* once for a task id.
C4_AtMostOnce ==
    \A i \in Ids : Cardinality({w \in Workers : phase[w][i] # "none"}) <= 1

\* C5. Ordering: a claim call given now never returns a task with
\* process_at > now, and when a Pending task with process_at <= now exists it
\* returns one of them, with the least process_at among them.
C5_ClaimOrdering ==
    [][\A w \in Workers :
         WorkerClaim(w) =>
           LET r == next_task'[w]
               E == Eligible(store, callNow[w])
           IN  /\ r # None => r[1].process_at <= callNow[w]
               /\ E # {} =>
                     /\ r # None
                     /\ r[1].id \in E
                     /\ \A j \in E : r[1].process_at <= store[j].process_at]_vars

\* C6. complete(id) returns Ok and sets the status to Completed exactly when
\* the task exists and is InProgress; otherwise it returns TaskNotPending
\* and leaves the whole store as it was.
C6_CompleteOnlyInProgress ==
    [][\A i \in Ids :
         DbCompleteTask(i) =>
           IF i \in DOMAIN store /\ store[i].status = "InProgress"
           THEN /\ last'.res = "Ok"
                /\ store' = [store EXCEPT ![i].status = "Completed"]
           ELSE /\ last'.res = "TaskNotPending"
                /\ store' = store]_vars

\* C6, witness: complete was called on a Pending task, failed, and the task
\* is still Pending.
C6_Witness ==
    /\ last.op = "complete_task"
    /\ last.res = "TaskNotPending"
    /\ last.id \in DOMAIN store
    /\ store[last.id].status = "Pending"

\* C7. Bounded parallelism: a worker process never has more than
\* MAX_CONCURRENT_TASKS executions that hold a permit, and all the worker
\* processes together never more than that times their number.
C7_BoundedParallelism ==
    /\ \A w \in Workers : Cardinality(Executing(w)) <= MAX_CONCURRENT_TASKS
    /\ Cardinality({x \in Workers \X Ids : x[2] \in Executing(x[1])})
          <= Cardinality(Workers) * MAX_CONCURRENT_TASKS

\* C7, witness: a worker process runs at its full capacity, no permit free.
C7_Witness ==
    \E w \in Workers :
        /\ Cardinality(Executing(w)) = MAX_CONCURRENT_TASKS
        /\ permits[w] = 0

\* C8 as stated: no claim call of a worker returns a task (moving it to
\* InProgress) while all the permits of that worker are held by executions.
C8_NoClaimWhileSaturated ==
    [][\A w \in Workers :
         (WorkerClaim(w) /\ next_task'[w] # None) =>
           ~(permits[w] = 0
             /\ Cardinality(Executing(w)) = MAX_CONCURRENT_TASKS)]_vars

\* C8 as amended: no execution is spawned while the worker's capacity is
\* saturated, and a loop that holds a claimed task while it is saturated
\* keeps holding it and starts no other claim call.
C8_NoDispatchWhileSaturated ==
    [][\A w \in Workers :
         /\ (\E i \in Ids : phase[w][i] = "none" /\ phase'[w][i] = "running")
              => /\ Cardinality(Executing(w)) < MAX_CONCURRENT_TASKS
                 /\ permits[w] > 0
         /\ (pc[w] = "acquire"
              /\ Cardinality(Executing(w)) = MAX_CONCURRENT_TASKS)
              => /\ pc'[w] = "acquire"
                 /\ next_task'[w] = next_task[w]
                 /\ cte'[w] = cte[w]]_vars

\* C8, witness: a loop holds a task it claimed while all its permits are
\* held by executions.
C8_Witness ==
    \E w \in Workers :
        /\ pc[w] = "acquire"
        /\ next_task[w] # None
        /\ permits[w] = 0
        /\ Cardinality(Executing(w)) = MAX_CONCURRENT_TASKS

\* C9. An execution calls complete_task once after its run has returned,
\* and only then, whatever the call returned, drops its permit; no permit is
\* released in any other way.
C9_CompleteThenRelease ==
    /\ [](\A w \in Workers, i \in Ids :
            /\ completes[w][i] <= 1
            /\ phase[w][i] \in {"none", "running"} => completes[w][i] = 0
            /\ phase[w][i] \in {"completed", "done"} => completes[w][i] = 1
            /\ phase[w][i] = "completed" => ENABLED TaskFinish(w, i))
    /\ [][\A w \in Workers :
            /\ permits'[w] > permits[w] =>
                  \E i \in Ids : /\ phase[w][i] = "completed"
                                 /\ phase'[w][i] = "done"
                                 /\ completes[w][i] = 1
                                 /\ permits'[w] = permits[w] + 1
            /\ \A i \in Ids :
                  /\ (phase[w][i] # "done" /\ phase'[w][i] = "done") =>
                        /\ phase[w][i] = "completed"
                        /\ result[w][i] \in {"Ok", "TaskNotPending"}
                        /\ permits'[w] = permits[w] + 1
                  /\ completes'[w][i] # completes[w][i] =>
                        phase[w][i] = "running"]_vars

\* C9, witness: an execution whose complete_task failed has dropped its
\* permit, and all the permits of its worker are free again.
C9_Witness ==
    \E w \in Workers, i \in Ids :
        /\ phase[w][i] = "done"
        /\ result[w][i] = "TaskNotPending"
        /\ permits[w] = MAX_CONCURRENT_TASKS

\* C10. A complete_task that fails (the task was deleted, or is no longer
\* InProgress) changes nothing in the store, is reported on stderr, and
\* leaves the worker's loop where it was: the loop never ends, and it can
\* take its next step unless it waits for a permit that an execution holds.
C10_FailedCompleteKeepsLoop ==
    /\ [](\A w \in Workers :
            /\ pc[w] \in {"poll", "update", "acquire"}
            /\ pc[w] = "poll" => ENABLED WorkerPoll(w)
            /\ pc[w] = "update" => ENABLED WorkerClaim(w)
            /\ pc[w] = "acquire" => ENABLED WorkerSpawn(w) \/ Executing(w) # {})
    /\ [][\A w \in Workers, i \in Ids :
            /\ (TaskComplete(w, i)
                 /\ ~(i \in DOMAIN store /\ store[i].status = "InProgress"))
                 => /\ result'[w][i] = "TaskNotPending"
                    /\ store' = store
                    /\ pc' = pc
                    /\ next_task' = next_task
            /\ (TaskFinish(w, i) /\ result[w][i] = "TaskNotPending")
                 => /\ stderr'[w] = stderr[w] \cup {i}
                    /\ store' = store
                    /\ pc' = pc
                    /\ next_task' = next_task]_vars

\* C10, witness: a worker has reported the failed completion of a task that
\* was deleted under it, and is running another task.
C10_Witness ==
    \E w \in Workers, i \in Ids, j \in Ids :
        /\ i # j
        /\ i \in stderr[w]
        /\ i \notin DOMAIN store
        /\ phase[w][i] = "done"
        /\ phase[w][j] = "running"

\* C11. When the claim call of the worker's loop fails with a store error
\* the loop does not go round: the worker ends, and from then on it starts
\* no claim call, holds no claim statement and claims no task.
C11_ClaimErrorEndsLoop ==
    /\ [](\A w \in Workers :
            pc[w] = "exited" =>
              /\ cte[w] = None
              /\ next_task[w] = None
              /\ ~ENABLED WorkerPoll(w)
              /\ ~ENABLED WorkerClaim(w)
              /\ ~ENABLED WorkerSpawn(w))
    /\ [][\A w \in Workers :
            /\ WorkerClaimFails(w) => pc'[w] = "exited"
            /\ pc[w] = "exited" =>
                  /\ pc'[w] = "exited"
                  /\ claims' = claims
                  /\ \A i \in DOMAIN store \cap DOMAIN store' :
                        store'[i] = store[i]]_vars

\* C11, witness: the worker has ended on a store error while a Pending task
\* is due, which a loop that retried would claim.
C11_Witness ==
    /\ pc[SoloWorker] = "exited"
    /\ CteRows(store, clock) # {}

\* C12. No reversion after a crash: a task that a worker process claimed and
\* was executing when it ended, before it called complete_task, stays
\* InProgress as long as it is stored: no step returns it to another status,
\* and no claim call returns it again.
C12_NoReversionAfterCrash ==
    [][\A w \in Workers, i \in Ids :
         (/\ pc[w] = "exited"
          /\ phase[w][i] = "dropped"
          /\ completes[w][i] = 0
          /\ i \in DOMAIN store
          /\ store[i].status = "InProgress")
         => /\ i \in DOMAIN store' => store'[i].status = "InProgress"
            /\ claims'[i] = claims[i]]_vars

\* C13. delete_task removes the task whatever its status and leaves every
\* other task as it was; on an id that is not stored it returns Ok and
\* changes nothing, so a second delete_task of the same id changes nothing.
C13_DeleteIdempotent ==
    /\ [](\A id \in Ids :
            delete_task(delete_task(store, id), id) = delete_task(store, id))
    /\ [][\A id \in Ids :
            DbDeleteTask(id) =>
              /\ last'.res = "Ok"
              /\ DOMAIN store' = DOMAIN store \ {id}
              /\ \A j \in DOMAIN store' : store'[j] = store[j]
              /\ id \notin DOMAIN store => store' = store
              /\ (last.op = "delete_task" /\ last.id = id) => store' = store]_vars

\* C13, witness: a task that had been claimed (it was InProgress or
\* Completed) has been deleted, and another task is still stored.
C13_Witness ==
    /\ last.op = "delete_task"
    /\ last.id <= issued
    /\ last.id \notin DOMAIN store
    /\ claims[last.id] >= 1
    /\ DOMAIN store # {}

\* C14. Delay gating: a task created for kind k at base time t0 gets
\* process_at = t0 + 3 for Foo and t0 for Bar and Baz; a claim call given now
\* selects and returns no task whose process_at is after now, and it returns
\* the task when its process_at has come and it is the only Pending task.
C14_DelayGating ==
    [][/\ \A k \in TaskKind, t0 \in 0..MaxExecuteAt :
            DbAddTask(k, t0) =>
              /\ store'[issued + 1].kind = k
              /\ store'[issued + 1].status = "Pending"
              /\ k = "Foo" => store'[issued + 1].process_at = t0 + 3
              /\ k \in {"Bar", "Baz"} => store'[issued + 1].process_at = t0
       /\ DbClaimStart(Client) =>
            \A i \in DOMAIN store :
               /\ clock < store[i].process_at => cte'[Client] # Some(i)
               /\ (/\ store[i].process_at <= clock
                   /\ {j \in DOMAIN store : store[j].status = "Pending"} = {i})
                    => cte'[Client] = Some(i) /\ callNow'[Client] = clock
       /\ DbClaimReturn(Client) =>
            /\ last'.res = "Some"
            /\ last'.id = cte[Client][1]
            /\ store[last'.id].process_at <= callNow[Client]
            /\ store'[last'.id].status = "InProgress"]_vars

\* C14, witness: a claim call has returned a Foo task at the very second its
\* process_at came, three seconds after its base time.
C14_Witness ==
    /\ last.op = "get_next_task"
    /\ last.res = "Some"
    /\ last.id \in DOMAIN store
    /\ store[last.id].kind = "Foo"
    /\ store[last.id].process_at = clock
    /\ clock >= 3

\* C15. Once a task has been claimed and then completed, no claim call
\* returns it again, whatever the time, and it stays stored as Completed
\* (what get_task shows) until it is deleted.
C15_CompletedNotReclaimed ==
    [][\A i \in DOMAIN store :
         (claims[i] >= 1 /\ store[i].status = "Completed") =>
           /\ claims'[i] = claims[i]
           /\ get_task(store', i) # None =>
                 get_task(store', i)[1].status = "Completed"]_vars

\* C15 for a client whose calls do not overlap: a task claimed and completed
\* is never selected or returned again, get_task returns it as Completed,
\* and the next claim call returns, of the Pending tasks that are due, one
\* with the least process_at.
C15_CallsInTurn ==
    /\ [](\A i \in DOMAIN store :
            (claims[i] >= 1 /\ store[i].status = "Completed")
              => cte[Client] # Some(i))
    /\ [][/\ \A i \in DOMAIN store :
               (claims[i] >= 1 /\ store[i].status = "Completed") =>
                 /\ claims'[i] = claims[i]
                 /\ i \in DOMAIN store' => store'[i].status = "Completed"
                 /\ DbGetTask(i) =>
                       /\ last'.rows = Some(store[i])
                       /\ last'.rows[1].status = "Completed"
          /\ DbClaimStart(Client) =>
               LET due == {k \in DOMAIN store :
                             /\ store[k].status = "Pending"
                             /\ store[k].process_at <= clock}
               IN  IF due = {}
                   THEN last'.res = "None" /\ cte'[Client] = None
                   ELSE \E j \in due :
                          /\ cte'[Client] = Some(j)
                          /\ \A k \in due :
                                store[j].process_at <= store[k].process_at
          /\ DbClaimReturn(Client) =>
               /\ last'.res = "Some"
               /\ last'.id = cte[Client][1]
               /\ store[last'.id].status = "Pending"]_vars

\* C16. add_task leaves the task it inserts in the store with the status
\* Pending, whatever Task value the caller passes.
C16_InsertedIsPending ==
    [][/\ \A k \in TaskKind, t \in 0..MaxExecuteAt :
            DbAddTask(k, t) => store'[issued + 1].status = "Pending"
       /\ \A k \in TaskKind, t \in 0..MaxExecuteAt, st \in TaskStatus :
            DbAddTaskAs(k, t, st) => store'[issued + 1].status = "Pending"]_vars

\* C17. get_tasks returns every stored task exactly once, in non-decreasing
\* order of process_at; get_filtered_tasks returns in that order exactly the
\* stored tasks of the status, or of the kind, it is given; neither changes
\* the store.
C17_ListsOrderedAndExact ==
    [][/\ DbGetTasks =>
            /\ store' = store
            /\ Len(last'.rows) = Cardinality(DOMAIN store)
            /\ \A i \in DOMAIN store :
                  \E a \in 1..Len(last'.rows) : last'.rows[a] = store[i]
            /\ \A a, b \in 1..Len(last'.rows) :
                  a < b => last'.rows[a].process_at <= last'.rows[b].process_at
       /\ \A f \in Filter :
            DbGetFilteredTasks(f) =>
              LET match == {i \in DOMAIN store :
                              \/ f[1] = "Status" /\ store[i].status = f[2]
                              \/ f[1] = "Kind" /\ store[i].kind = f[2]}
              IN  /\ store' = store
                  /\ Len(last'.rows) = Cardinality(match)
                  /\ \A i \in match :
                        \E a \in 1..Len(last'.rows) : last'.rows[a] = store[i]
                  /\ \A a, b \in 1..Len(last'.rows) :
                        a < b =>
                          last'.rows[a].process_at <= last'.rows[b].process_at]_vars

\* C17, witness: get_tasks has returned two tasks in the order of their
\* process_at, which is not the order in which they were inserted, and the
\* two differ in status.
C17_Witness ==
    /\ last.op = "get_tasks"
    /\ Len(last.rows) >= 2
    /\ last.rows[1].process_at < last.rows[2].process_at
    /\ last.rows[1].id > last.rows[2].id
    /\ last.rows[1].status # last.rows[2].status

\* C18. Frame of claim and complete: a claim call changes nothing but the
\* status of the one task it returns, and nothing at all when it returns
\* none; complete_task(id) changes nothing but the status of task id; id, kind
\* and process_at of every stored task stay as they are.
C18_Frame ==
    [][/\ DbClaimStart(Client) => store' = store
       /\ DbClaimReturn(Client) =>
            /\ DOMAIN store' = DOMAIN store
            /\ last'.res = "None" => store' = store
            /\ last'.res = "Some" =>
                  \A j \in DOMAIN store :
                     /\ store'[j].id = store[j].id
                     /\ store'[j].kind = store[j].kind
                     /\ store'[j].process_at = store[j].process_at
                     /\ j # last'.id => store'[j].status = store[j].status
       /\ \A i \in Ids :
            DbCompleteTask(i) =>
              /\ DOMAIN store' = DOMAIN store
              /\ \A j \in DOMAIN store :
                    /\ store'[j].id = store[j].id
                    /\ store'[j].kind = store[j].kind
                    /\ store'[j].process_at = store[j].process_at
                    /\ j # i => store'[j].status = store[j].status]_vars

\* C18, witness: a claim call has returned one task and another task that
\* was due as well is still Pending.
C18_Witness ==
    /\ last.op = "get_next_task"
    /\ last.res = "Some"
    /\ last.id \in DOMAIN store
    /\ \E j \in DOMAIN store :
          /\ j # last.id
          /\ store[j].status = "Pending"
          /\ store[j].process_at <= store[last.id].process_at

\* C19. Limiter conservation: for every worker process the free permits and
\* the permits held by its spawned executions add up to
\* MAX_CONCURRENT_TASKS, the free permits stay within 0 and
\* MAX_CONCURRENT_TASKS, and when no execution is left all the permits are
\* free.
C19_LimiterConservation ==
    \A w \in Workers :
        /\ permits[w] + Cardinality(Executing(w)) = MAX_CONCURRENT_TASKS
        /\ permits[w] >= 0
        /\ permits[w] <= MAX_CONCURRENT_TASKS
        /\ Executing(w) = {} => permits[w] = MAX_CONCURRENT_TASKS

\* C19, witness: a worker has dispatched executions, every one of them has
\* finished, one with Ok, and all its permits are free.
C19_Witness ==
    \E w \in Workers, i \in Ids :
        /\ phase[w][i] = "done"
        /\ result[w][i] = "Ok"
        /\ Executing(w) = {}
        /\ next_task[w] = None
        /\ permits[w] = MAX_CONCURRENT_TASKS

\* C20. Claimed-task bound: the tasks a worker process has claimed and for
\* which it has not yet called complete_task are at most
\* MAX_CONCURRENT_TASKS spawned executions and at most one task held by the
\* loop, which then waits for a permit: at most MAX_CONCURRENT_TASKS + 1.
C20_ClaimedBound ==
    \A w \in Workers :
        LET spawned == {i \in Ids : phase[w][i] = "running"}
            held == IF next_task[w] = None THEN {} ELSE {next_task[w][1].id}
        IN  /\ Cardinality(spawned) <= MAX_CONCURRENT_TASKS
            /\ Cardinality(held) <= 1
            /\ held # {} => pc[w] = "acquire"
            /\ Cardinality(spawned \cup held) <= MAX_CONCURRENT_TASKS + 1
            /\ Cardinality(spawned) + Cardinality(held)
                  <= MAX_CONCURRENT_TASKS + 1

\* C20, witness: a worker has MAX_CONCURRENT_TASKS + 1 claimed tasks for
\* which it has not called complete_task, all of them InProgress.
C20_Witness ==
    \E w \in Workers :
        /\ next_task[w] # None
        /\ Cardinality({i \in Ids : phase[w][i] = "running"} \cup
                       {next_task[w][1].id}) = MAX_CONCURRENT_TASKS + 1
        /\ \A i \in {j \in Ids : phase[w][j] = "running"} \cup {next_task[w][1].id} :
              i \in DOMAIN store /\ store[i].status = "InProgress"

====
